---- MODULE Spec2Model ----
(***************************************************************************)
(* Killer game server (server.js): games, players and kill_history tables, *)
(* the two in-memory socket maps, and the Socket.IO handlers               *)
(* claim-identity, reclaim-identity, cancel-identity, start-game,          *)
(* claim-kill, resolve-kill and disconnect.  One game code is modelled;    *)
(* player ids are the row numbers 1..n of the players the game was created *)
(* with, session tokens are the numbers 1, 2, ... in order of issue.       *)
(***************************************************************************)
EXTENDS Integers, Sequences, FiniteSets, TLC

\* ------------------------------------------------------------------ bounds
\* Session tokens issued in one behaviour (crypto.randomBytes never repeats).
MaxTokens == 3

\* ------------------------------------------------------------ input domains
GameCode == "GAME01"
Sockets == {"c1", "c2"}
NoSock == "none"
NoPlayer == 0
NoToken == 0
NoTask == "null"
NoPin == "null"
CreatorToken == "creator"
CreatorInputs == {"creator", "intruder"}
Pins == {"1234", "9999"}
ClaimPins == {"1234"}
Answers == {"confirm", "CONFIRM", "deny"}
NameLists == { <<"Alice", "Bob", "Carol">> }
PairLists == { <<"Alice", "Bob">> }
NameListInputs == { <<"Alice", "Bob">>, <<"Alice", "Alice">> }
NameInputs == {"Alice", "Bob", "Carol", "Zed"}
TaskPools == { <<"t1", "t2">> }
PoolInputs == { <<"t1", "t2">>, <<"t1", "t1">>, <<"t1">> }
DEFAULT_TASKS == << "Make them say their favorite movie.",
                    "Get them to high-five you.",
                    "Borrow a pen from them.",
                    "Make them take a selfie with you.",
                    "Get them to say the word 'banana'." >>
Tokens == 1..MaxTokens
TokenInputs == 1..MaxTokens
PlayerSlots == UNION { DOMAIN names : names \in NameLists }
KillerInputs == {NoPlayer} \cup PlayerSlots

VARIABLES
    gameStatus,       \* games.status: "none" (no row), "lobby", "active", "finished"
    taskPool,         \* games.task_pool (parsed)
    players,          \* players table: sequence of rows, id = index
    kills,            \* kill_history table, in insertion order
    nextTok,          \* the next fresh session token
    connected,        \* sockets with an open connection
    sockData,         \* socket.data.sessionToken per socket
    sessionToSocket,  \* Map session_token -> socket.id
    playerToSocket    \* Map player.id -> socket.id

vars == << gameStatus, taskPool, players, kills, nextTok, connected, sockData,
           sessionToSocket, playerToSocket >>

\* What a handler can change, and the events it emits (out, in emission order).
\* Same is the outcome of a handler that changes nothing and emits nothing.
Same ==
    [ gameStatus |-> gameStatus, players |-> players, kills |-> kills,
      nextTok |-> nextTok, sockData |-> sockData,
      sessionToSocket |-> sessionToSocket, playerToSocket |-> playerToSocket,
      out |-> << >> ]

Apply(r) ==
    /\ gameStatus' = r.gameStatus
    /\ players' = r.players
    /\ kills' = r.kills
    /\ nextTok' = r.nextTok
    /\ sockData' = r.sockData
    /\ sessionToSocket' = r.sessionToSocket
    /\ playerToSocket' = r.playerToSocket
    /\ UNCHANGED << taskPool, connected >>

\* The persisted part of an outcome, and of the current state
Persisted(r) == << r.gameStatus, r.players, r.kills >>
Bindings(r) == << r.sessionToSocket, r.playerToSocket >>

\* ------------------------------------------------------------------ helpers
Range(s) == { s[i] : i \in DOMAIN s }
PlayerIds == DOMAIN players
Ev(to, ev, data) == [to |-> to, ev |-> ev, data |-> data]
Error(c, msg) == Ev(c, "error", [message |-> msg])
\* socket.emit('error', { message }); return
Reject(c, msg) == [Same EXCEPT !.out = << Error(c, msg) >>]

\* crypto.createHash('sha256').update(pin).digest('hex'): injective on Pins
Sha256(pin) == "sha256:" \o pin

\* String(answer).toLowerCase()
ToLowerCase(s) == IF s = "CONFIRM" THEN "confirm" ELSE s

\* SELECT id, name, status, session_token, joined_at FROM players ORDER BY name
Roster(ps) ==
    [ p \in DOMAIN ps |-> [ id |-> p, name |-> ps[p].name, status |-> ps[p].status,
                            session_token |-> ps[p].token, joined |-> ps[p].joined ] ]
RosterUpdate(ps) == Ev(GameCode, "player-list-update", [players |-> Roster(ps)])

\* listAlivePlayers
AliveIn(ps) == { p \in DOMAIN ps : ps[p].status = "alive" }
Alive == AliveIn(players)

\* getPlayerBySession: session tokens are unique, at most one row matches
PlayerBySession(ps, tok) ==
    IF tok # NoToken /\ \E p \in DOMAIN ps : ps[p].token = tok
    THEN CHOOSE p \in DOMAIN ps : ps[p].token = tok
    ELSE NoPlayer

\* ORDER BY name: the collation order of the names in use
NameOrder == << "Alice", "Bob", "Carol", "Zed" >>
NameRank(name) == CHOOSE i \in DOMAIN NameOrder : NameOrder[i] = name
RowBefore(ps, p, q) ==
    \/ NameRank(ps[p].name) < NameRank(ps[q].name)
    \/ NameRank(ps[p].name) = NameRank(ps[q].name) /\ p < q

RECURSIVE OrderByName(_, _)
OrderByName(ps, ids) ==
    IF ids = {} THEN << >>
    ELSE LET first == CHOOSE p \in ids : \A q \in ids \ {p} : RowBefore(ps, p, q)
         IN  << first >> \o OrderByName(ps, ids \ {first})

\* listAlivePlayers.all(gameCode)
ListAlivePlayers(ps) == OrderByName(ps, AliveIn(ps))

\* shuffleArray (Fisher-Yates): rnd[i] is the index j drawn for position i,
\* for (i = n - 1; i > 0; i--) { j = floor(random * (i + 1)); swap a[i], a[j] }
\* (positions are 1-based here: i runs from n down to 2, j in 1..i)
RandomDraws(n) == { r \in [2..n -> 1..n] : \A i \in 2..n : r[i] <= i }
Swap(a, i, j) == [a EXCEPT ![i] = a[j], ![j] = a[i]]

RECURSIVE ShuffleFrom(_, _, _)
ShuffleFrom(a, i, rnd) ==
    IF i < 2 THEN a ELSE ShuffleFrom(Swap(a, i, rnd[i]), i - 1, rnd)
ShuffleArray(arr, rnd) == ShuffleFrom(arr, Len(arr), rnd)

Init ==
    /\ gameStatus = "none"
    /\ taskPool = << >>
    /\ players = << >>
    /\ kills = << >>
    /\ nextTok = 1
    /\ connected = {}
    /\ sockData = [c \in Sockets |-> NoToken]
    /\ sessionToSocket = [t \in Tokens |-> NoSock]
    /\ playerToSocket = [p \in PlayerSlots |-> NoSock]

\* io.on('connection'): a new socket, its socket.data empty
Connect(c) ==
    /\ c \notin connected
    /\ connected' = connected \cup {c}
    /\ sockData' = [sockData EXCEPT ![c] = NoToken]
    /\ UNCHANGED << gameStatus, taskPool, players, kills, nextTok,
                    sessionToSocket, playerToSocket >>

\* A variant of DropSocket that empties the whole map
DropSocketAll(map, c) == [ k \in DOMAIN map |-> NoSock ]

\* socket.on('disconnect'): both maps lose the entries of this socket.id
DropSocket(map, c) == [ k \in DOMAIN map |-> IF map[k] = c THEN NoSock ELSE map[k] ]

Disconnect(c) ==
    /\ c \in connected
    /\ connected' = connected \ {c}
    /\ sessionToSocket' = DropSocket(sessionToSocket, c)
    /\ playerToSocket' = DropSocket(playerToSocket, c)
    /\ sockData' = [sockData EXCEPT ![c] = NoToken]
    /\ UNCHANGED << gameStatus, taskPool, players, kills, nextTok >>

\* POST /api/create-game, after parsing: playersArray, tasksArray
NewPlayerRow(name) ==
    [ name |-> name, status |-> "not-joined", token |-> NoToken, pin |-> NoPin,
      target |-> NoPlayer, task |-> NoTask, joined |-> FALSE ]

CreateGame(names, tasks) ==
    /\ gameStatus = "none"
    /\ Len(names) >= 2
    /\ Len(tasks) # 0
    /\ gameStatus' = "lobby"
    /\ taskPool' = tasks
    /\ players' = [ i \in 1..Len(names) |-> NewPlayerRow(names[i]) ]
    /\ UNCHANGED << kills, nextTok, connected, sockData, sessionToSocket,
                    playerToSocket >>

\* ---------------------------------------------------------------- join-game
\* The socket enters the room of the game and receives the status and the
\* roster; nothing is stored but the room membership, which the model does not
\* track (room-wide events are addressed to GameCode).
JoinGameResult(c) ==
    IF gameStatus = "none" THEN Reject(c, "Game not found.")
    ELSE IF gameStatus = "finished"
    THEN [ Same EXCEPT !.out = << Ev(c, "navigate-victory", [gameCode |-> GameCode]) >> ]
    ELSE [ Same EXCEPT
             !.out = << Ev(c, "game-state", [state |-> gameStatus]) >>
                     \o ( IF sockData[c] # NoToken
                             /\ PlayerBySession(players, sockData[c]) # NoPlayer
                             /\ players[PlayerBySession(players, sockData[c])].status
                                  = "eliminated"
                          THEN << Ev(c, "you-eliminated", [none |-> TRUE]) >>
                          ELSE << >> )
                     \o << Ev(c, "player-list-update", [players |-> Roster(players)]) >> ]

JoinGame(c) ==
    /\ c \in connected
    /\ Apply(JoinGameResult(c))

\* ------------------------------------------------------------ claim-identity
\* A variant of ClaimCandidates whose SELECT lacks the status = 'not-joined' filter
ClaimCandidatesAnyStatus(ps, name) == { p \in DOMAIN ps : ps[p].name = name }

\* SELECT * FROM players WHERE game_id = ? AND name = ? AND status = 'not-joined'
ClaimCandidates(ps, name) ==
    { p \in DOMAIN ps : ps[p].name = name /\ ps[p].status = "not-joined" }

\* A variant of ClaimRow whose UPDATE does not set status = 'alive'
ClaimRowKeepsStatus(row, tok, pin) ==
    [ row EXCEPT !.token = tok, !.pin = Sha256(pin), !.joined = TRUE ]

\* UPDATE players SET status = 'alive', session_token = ?, pin_code = ?,
\*   joined_at = CURRENT_TIMESTAMP WHERE id = ?
ClaimRow(row, tok, pin) ==
    [ row EXCEPT !.status = "alive", !.token = tok, !.pin = Sha256(pin),
                 !.joined = TRUE ]

\* p is the row the SELECT returned, when it returned one
ClaimIdentityResult(c, name, pin, p) ==
    IF gameStatus = "none" THEN Reject(c, "Game not found.")
    ELSE IF p \notin ClaimCandidates(players, name)
    THEN Reject(c, "Player not found or already claimed")
    ELSE
    LET ps1 == [players EXCEPT ![p] = ClaimRow(@, nextTok, pin)]
    IN  [ Same EXCEPT
            !.players = ps1,
            !.nextTok = nextTok + 1,
            !.sessionToSocket = [sessionToSocket EXCEPT ![nextTok] = c],
            !.playerToSocket = [playerToSocket EXCEPT ![p] = c],
            !.sockData = [sockData EXCEPT ![c] = nextTok],
            !.out = << Ev(c, "identity-confirmed",
                          [sessionToken |-> nextTok, playerName |-> name,
                           playerId |-> p]),
                       Ev(c, "game-state", [state |-> gameStatus]) >>
                    \o ( IF gameStatus = "active" /\ players[p].status = "eliminated"
                         THEN << Ev(c, "you-eliminated", [none |-> TRUE]) >>
                         ELSE << >> )
                    \o << RosterUpdate(ps1) >> ]

\* The rows the SELECT can return: a matching row, or none (NoPlayer)
Selected(candidates) == IF candidates = {} THEN {NoPlayer} ELSE candidates

ClaimIdentity(c, name, pin) ==
    /\ c \in connected
    /\ \E p \in Selected(ClaimCandidates(players, name)) :
         LET r == ClaimIdentityResult(c, name, pin, p)
         IN  r.nextTok <= MaxTokens + 1 /\ Apply(r)

\* ------------------------------------------------------------ cancel-identity
\* SELECT * FROM players WHERE game_id = ? AND session_token = ? AND status = 'alive'
CancelCandidates(ps, tok) ==
    { p \in DOMAIN ps : ps[p].token = tok /\ ps[p].status = "alive" }

\* A variant of CancelRow that also clears the PIN hash
CancelRowClearsPin(row) ==
    [ row EXCEPT !.status = "not-joined", !.token = NoToken, !.joined = FALSE,
                 !.pin = NoPin ]

\* UPDATE players SET status = 'not-joined', session_token = NULL, joined_at = NULL
CancelRow(row) ==
    [ row EXCEPT !.status = "not-joined", !.token = NoToken, !.joined = FALSE ]

CancelIdentityResult(c, tok, p) ==
    IF gameStatus = "none" THEN Reject(c, "Game not found.")
    ELSE IF p \notin CancelCandidates(players, tok)
    THEN Reject(c, "Invalid session or player not found")
    ELSE
    LET ps1 == [players EXCEPT ![p] = CancelRow(@)]
    IN  [ Same EXCEPT
            !.players = ps1,
            !.sessionToSocket = [sessionToSocket EXCEPT ![tok] = NoSock],
            !.playerToSocket = [playerToSocket EXCEPT ![p] = NoSock],
            !.sockData = [sockData EXCEPT ![c] = NoToken],
            !.out = << Ev(c, "game-state", [state |-> gameStatus]),
                       Ev(c, "identity-canceled", [playerName |-> players[p].name]),
                       RosterUpdate(ps1) >> ]

CancelIdentity(c, tok) ==
    /\ c \in connected
    /\ \E p \in Selected(CancelCandidates(players, tok)) :
         Apply(CancelIdentityResult(c, tok, p))

\* ----------------------------------------------------------- reclaim-identity
\* The player the socket's own session is released from: it holds a session
\* for a player of this game whose name differs from the reclaimed name.
ReleasedPlayer(ps, ownTok, name) ==
    LET cur == PlayerBySession(ps, ownTok)
    IN  IF cur # NoPlayer /\ ps[cur].name # name THEN cur ELSE NoPlayer

\* SELECT * FROM players WHERE game_id = ? AND name = ? AND pin_code IS NOT NULL
ReclaimCandidates(ps, name) ==
    { p \in DOMAIN ps : ps[p].name = name /\ ps[p].pin # NoPin }

\* A variant of PinMatches that accepts any PIN once one has been set
PinMatchesAny(row, pin) == row.pin # NoPin

PinMatches(row, pin) == row.pin = Sha256(pin)

\* The old session is notified and dropped from sessionToSocket
SupersedesOldSession(oldTok, s2s, ownTok) ==
    /\ oldTok # NoToken
    /\ s2s[oldTok] # NoSock
    /\ (ownTok = NoToken \/ oldTok # ownTok)

\* A variant of ReclaimRow that sets the status to alive in every game status
ReclaimRowAlwaysAlive(row, tok, status) ==
    [row EXCEPT !.token = tok, !.status = "alive"]

\* A variant of ReclaimRow that keeps the session token the row already has
ReclaimRowKeepsToken(row, tok, status) ==
    IF row.token # NoToken THEN row ELSE [row EXCEPT !.token = tok]

\* UPDATE players SET session_token = ? [, status = 'alive'] WHERE id = ?
ReclaimRow(row, tok, status) ==
    IF status = "lobby" THEN [row EXCEPT !.token = tok, !.status = "alive"]
    ELSE [row EXCEPT !.token = tok]

\* { target: target ? { id, name } : null, task: task || null }
Assignment(ps, p) ==
    [ target |-> IF ps[p].target # NoPlayer /\ ps[p].target \in DOMAIN ps
                 THEN [id |-> ps[p].target, name |-> ps[ps[p].target].name]
                 ELSE [id |-> NoPlayer, name |-> "null"],
      task |-> ps[p].task ]

\* The outcome of the release of the socket's other identity alone
ReleaseResult(c, name) ==
    LET own == sockData[c]
        rel == ReleasedPlayer(players, own, name)
    IN  IF rel = NoPlayer THEN Same
        ELSE [ Same EXCEPT
                 !.players = [players EXCEPT ![rel].token = NoToken],
                 !.sessionToSocket = [sessionToSocket EXCEPT ![own] = NoSock],
                 !.playerToSocket = [playerToSocket EXCEPT ![rel] = NoSock],
                 !.out = << Ev(c, "identity-canceled",
                               [playerName |-> players[rel].name]) >> ]

\* A variant of ReclaimError whose message tells the two failure sites apart
ReclaimErrorNamesCause(cause) ==
    IF cause = "no-player" THEN "Player not found." ELSE "Wrong PIN."

\* socket.emit('error', { message: 'Reclaim failed.' }): the same literal where
\* the SELECT finds no row ("no-player") and where the PIN differs ("wrong-pin")
ReclaimError(cause) == "Reclaim failed."

\* p is the row the SELECT returned, when it returned one
ReclaimIdentityResult(c, name, pin, p) ==
    IF gameStatus = "none" THEN Reject(c, "Game not found.")
    ELSE
    LET own == sockData[c]
        r1 == ReleaseResult(c, name)
        failed(cause) ==
            [r1 EXCEPT !.out = r1.out \o << Error(c, ReclaimError(cause)) >>]
    IN  IF p \notin ReclaimCandidates(r1.players, name) THEN failed("no-player")
        ELSE IF ~PinMatches(r1.players[p], pin) THEN failed("wrong-pin")
        ELSE
        LET old == r1.players[p].token
            sup == SupersedesOldSession(old, r1.sessionToSocket, own)
            s2s2 == IF sup THEN [r1.sessionToSocket EXCEPT ![old] = NoSock]
                    ELSE r1.sessionToSocket
            ps2 == [r1.players EXCEPT ![p] = ReclaimRow(@, nextTok, gameStatus)]
        IN  [ r1 EXCEPT
                !.players = ps2,
                !.nextTok = nextTok + 1,
                !.sessionToSocket = [s2s2 EXCEPT ![nextTok] = c],
                !.playerToSocket = [r1.playerToSocket EXCEPT ![p] = c],
                !.sockData = [sockData EXCEPT ![c] = nextTok],
                !.out = r1.out
                    \o ( IF sup
                         THEN << Ev(r1.sessionToSocket[old], "session-invalidated",
                                    [none |-> TRUE]) >>
                         ELSE << >> )
                    \o << Ev(c, "identity-reclaimed",
                             [sessionToken |-> nextTok,
                              playerName |-> r1.players[p].name, playerId |-> p]),
                          Ev(c, "game-state", [state |-> gameStatus]) >>
                    \o ( IF gameStatus = "active" /\ r1.players[p].status = "alive"
                         THEN << Ev(c, "your-assignment", Assignment(r1.players, p)) >>
                         ELSE << >> )
                    \o << RosterUpdate(ps2) >> ]

ReclaimIdentity(c, name, pin) ==
    /\ c \in connected
    /\ \E p \in Selected(ReclaimCandidates(ReleaseResult(c, name).players, name)) :
         LET r == ReclaimIdentityResult(c, name, pin, p)
         IN  r.nextTok <= MaxTokens + 1 /\ Apply(r)

\* ------------------------------------------------------------------ start-game
\* tasks = parsed task_pool, DEFAULT_TASKS when it is empty
ParsedTasks(pool) == IF Len(pool) = 0 THEN DEFAULT_TASKS ELSE pool

\* A variant of TasksToAssign whose small-pool branch fills the remainder from
\* DEFAULT_TASKS instead of the pool
TasksToAssignFromDefaults(tasks, n, r1, picks, r2) ==
    IF Len(tasks) >= n
    THEN SubSeq(ShuffleArray(tasks, r1), 1, n)
    ELSE ShuffleArray(ShuffleArray(tasks, r1)
                        \o [ i \in 1..(n - Len(tasks)) |-> DEFAULT_TASKS[picks[i]] ], r2)

\* tasksToAssign: r1 shuffles the pool, picks are the extra random draws when the
\* pool is smaller than the number of players, r2 is the final shuffle
TasksToAssign(tasks, n, r1, picks, r2) ==
    IF Len(tasks) >= n
    THEN SubSeq(ShuffleArray(tasks, r1), 1, n)
    ELSE ShuffleArray(ShuffleArray(tasks, r1)
                        \o [ i \in 1..(n - Len(tasks)) |-> tasks[picks[i]] ], r2)

\* A variant of TargetOf without the wrap-around: the last player keeps itself
TargetOfNoWrap(shuffled, i) == shuffled[IF i = Len(shuffled) THEN i ELSE i + 1]

\* targetId = shuffled[(i + 1) % shuffled.length]  (positions 1-based here)
TargetOf(shuffled, i) == shuffled[(i % Len(shuffled)) + 1]

\* The transaction's updatePlayerTargetAndTask loop
AssignRows(ps, shuffled, tasksToAssign) ==
    [ p \in DOMAIN ps |->
        IF \E i \in DOMAIN shuffled : shuffled[i] = p
        THEN LET i == CHOOSE i \in DOMAIN shuffled : shuffled[i] = p
             IN  [ps[p] EXCEPT !.target = TargetOf(shuffled, i),
                               !.task = tasksToAssign[i]]
        ELSE ps[p] ]

\* A variant of AssignmentDMs that emits every assignment to the game room
AssignmentDMsToRoom(ps, p2s, ids) ==
    [ i \in 1..Len(ids) |-> Ev(GameCode, "your-assignment", Assignment(ps, ids[i])) ]

\* DM each player with private assignment: skipped when no socket is mapped
RECURSIVE AssignmentDMs(_, _, _)
AssignmentDMs(ps, p2s, ids) ==
    IF ids = << >> THEN << >>
    ELSE ( IF p2s[Head(ids)] # NoSock
           THEN << Ev(p2s[Head(ids)], "your-assignment", Assignment(ps, Head(ids))) >>
           ELSE << >> )
         \o AssignmentDMs(ps, p2s, Tail(ids))

\* A variant of AlreadyStarted that lets a finished game be started again
AlreadyStartedOnlyActive(status) == status = "active"

IsCreator(creatorToken) == creatorToken = CreatorToken
AlreadyStarted(status) == status = "active" \/ status = "finished"
EnoughPlayers(alive) == Len(alive) >= 2

\* The random draws of one start-game: the shuffle of the ids, the shuffle of
\* the pool, the extra picks and the final shuffle of the small-pool branch
StartDrawsWith(n, poolSize, a) ==
    LET extra == IF poolSize >= n THEN 0 ELSE n - poolSize
    IN  { [ids |-> a, tasks |-> b, picks |-> k, final |-> f] :
            b \in RandomDraws(poolSize),
            k \in [1..extra -> 1..poolSize],
            f \in IF extra = 0 THEN {<< >>} ELSE RandomDraws(n) }
StartDraws(n, poolSize) ==
    UNION { StartDrawsWith(n, poolSize, a) : a \in RandomDraws(n) }

\* The precondition checks of start-game, in the order of the code. "restart"
\* is the 'Prevent restarting' branch, which emits no error.
StartGameError(creatorToken) ==
    IF gameStatus = "none" THEN "Game not found."
    ELSE IF ~IsCreator(creatorToken) THEN "Only the creator can start the game."
    ELSE IF AlreadyStarted(gameStatus) THEN "restart"
    ELSE IF ~EnoughPlayers(ListAlivePlayers(players))
         THEN "Need at least 2 players to start."
    ELSE "ok"

\* The shuffles run only once the checks have passed
NoDraws == [ids |-> << >>, tasks |-> << >>, picks |-> << >>, final |-> << >>]
DrawsOf(creatorToken) ==
    IF StartGameError(creatorToken) = "ok"
    THEN StartDraws(Cardinality(Alive), Len(ParsedTasks(taskPool)))
    ELSE {NoDraws}

StartGameResult(c, creatorToken, draws) ==
    LET err == StartGameError(creatorToken)
    IN  IF err = "restart"
        THEN [ Same EXCEPT !.out = << Ev(GameCode, "game-state", [state |-> "active"]),
                                      Ev(GameCode, "game-started", [none |-> TRUE]) >> ]
        ELSE IF err # "ok" THEN Reject(c, err)
        ELSE
        LET ids == ListAlivePlayers(players)
            shuffled == ShuffleArray(ids, draws.ids)
            ps1 == AssignRows(players, shuffled,
                              TasksToAssign(ParsedTasks(taskPool), Len(ids),
                                            draws.tasks, draws.picks, draws.final))
        IN  [ Same EXCEPT
                !.players = ps1,
                !.gameStatus = "active",
                !.out = << Ev(GameCode, "game-state", [state |-> "started"]),
                           Ev(GameCode, "game-started", [none |-> TRUE]) >>
                        \o AssignmentDMs(ps1, playerToSocket, ListAlivePlayers(ps1)) ]

StartGame(c, creatorToken) ==
    /\ c \in connected
    /\ \E draws \in DrawsOf(creatorToken) :
         Apply(StartGameResult(c, creatorToken, draws))

\* ------------------------------------------------------------------ claim-kill
ClaimKillError(tok) ==
    LET killer == PlayerBySession(players, tok)
    IN  IF gameStatus # "active" THEN "Game not active."
        ELSE IF killer = NoPlayer THEN "Invalid session."
        ELSE IF players[killer].status # "alive"
             THEN "Eliminated players cannot claim kills."
        ELSE IF players[killer].target = NoPlayer THEN "You have no target."
        ELSE IF players[killer].task = NoTask THEN "No task assigned to you."
        ELSE IF players[killer].target \notin DOMAIN players THEN "Target not found."
        ELSE IF players[players[killer].target].status # "alive"
             THEN "Target is already eliminated."
        ELSE IF playerToSocket[players[killer].target] = NoSock
             THEN "Target is offline. Try again later."
        ELSE "ok"

ClaimKillResult(c, tok) ==
    LET err == ClaimKillError(tok)
        killer == PlayerBySession(players, tok)
    IN  IF err # "ok" THEN Reject(c, err)
        ELSE [ Same EXCEPT !.out =
                 << Ev(playerToSocket[players[killer].target], "kill-challenge",
                       [killer_id |-> killer, killer_name |-> players[killer].name,
                        task |-> players[killer].task]) >> ]

ClaimKill(c, tok) ==
    /\ c \in connected
    /\ Apply(ClaimKillResult(c, tok))

\* ---------------------------------------------------------------- resolve-kill
\* A variant of ResolveKillError that omits the check of the killer's target
ResolveKillErrorNoTargetCheck(tok, killerId) ==
    LET target == PlayerBySession(players, tok)
    IN  IF target = NoPlayer THEN "Invalid session."
        ELSE IF players[target].status # "alive"
             THEN "Only alive targets can resolve a kill."
        ELSE IF killerId \notin DOMAIN players THEN "Killer not found."
        ELSE IF players[killerId].status # "alive" THEN "Killer is no longer alive."
        ELSE "ok"

ResolveKillError(tok, killerId) ==
    LET target == PlayerBySession(players, tok)
    IN  IF target = NoPlayer THEN "Invalid session."
        ELSE IF players[target].status # "alive"
             THEN "Only alive targets can resolve a kill."
        ELSE IF killerId \notin DOMAIN players THEN "Killer not found."
        ELSE IF players[killerId].status # "alive" THEN "Killer is no longer alive."
        ELSE IF players[killerId].target # target
             THEN "You are not their current target."
        ELSE "ok"

\* A variant of IsConfirm that takes every non-empty answer for a confirmation
IsConfirmAnyAnswer(answer) == answer # ""

IsConfirm(answer) == ToLowerCase(answer) = "confirm"

\* A variant of NewTargetForKiller that always hands over the victim's target
NewTargetKeepsNext(targetNextId, killerId) == targetNextId

\* newTargetForKiller = (targetNextId === killer.id) ? null : targetNextId
NewTargetForKiller(targetNextId, killerId) ==
    IF targetNextId = killerId THEN NoPlayer ELSE targetNextId

\* A variant of EliminateRows without setPlayerStatus.run('eliminated', target.id)
EliminateRowsKeepsStatus(ps, killer, target) ==
    [ps EXCEPT ![killer].target = NewTargetForKiller(ps[target].target, killer),
               ![killer].task = ps[target].task]

\* A variant of EliminateRows without setPlayerTargetOnly.run(.., killer.id)
EliminateRowsKeepsTarget(ps, killer, target) ==
    [ps EXCEPT ![target].status = "eliminated",
               ![killer].task = ps[target].task]

\* A variant of EliminateRows without setPlayerTaskOnly.run(target.task, killer.id)
EliminateRowsKeepsTask(ps, killer, target) ==
    [ps EXCEPT ![target].status = "eliminated",
               ![killer].target = NewTargetForKiller(ps[target].target, killer)]

\* The transaction: setPlayerStatus, setPlayerTargetOnly, setPlayerTaskOnly
EliminateRows(ps, killer, target) ==
    [ps EXCEPT ![target].status = "eliminated",
               ![killer].target = NewTargetForKiller(ps[target].target, killer),
               ![killer].task = ps[target].task]

\* kill_history.timestamp DEFAULT CURRENT_TIMESTAMP: the time of an insert, in
\* whole seconds. Only the order of the timestamps is observable, so an insert
\* happens in the second of the latest record or in the next one.
CurrentTimestamps ==
    IF kills = << >> THEN {1}
    ELSE { kills[Len(kills)].timestamp, kills[Len(kills)].timestamp + 1 }

\* insertKill.run(uuidv4(), target.game_id, killer.id, target.id, target.task);
\* the timestamp column takes its default
KillRecord(ps, killer, target, now) ==
    [killer |-> killer, victim |-> target, task |-> ps[target].task,
     timestamp |-> now]

\* aliveNow.length === 1
GameOver(ps) == Cardinality(AliveIn(ps)) = 1

ResolveKillResult(c, tok, killerId, answer, now) ==
    LET err == ResolveKillError(tok, killerId)
        target == PlayerBySession(players, tok)
    IN  IF err # "ok" THEN Reject(c, err)
        ELSE IF ~IsConfirm(answer)
        THEN [ Same EXCEPT !.out =
                 IF playerToSocket[killerId] # NoSock
                 THEN << Ev(playerToSocket[killerId], "kill-denied", [none |-> TRUE]) >>
                 ELSE << >> ]
        ELSE
        LET ps1 == EliminateRows(players, killerId, target)
            over == GameOver(ps1)
            winner == CHOOSE w \in AliveIn(ps1) : TRUE
        IN  [ Same EXCEPT
                !.players = ps1,
                !.kills = Append(kills, KillRecord(players, killerId, target, now)),
                !.gameStatus = IF over THEN "finished" ELSE gameStatus,
                !.out = << RosterUpdate(ps1),
                           Ev(GameCode, "player-eliminated",
                              [name |-> players[target].name, id |-> target]) >>
                        \o ( IF playerToSocket[target] # NoSock
                             THEN << Ev(playerToSocket[target], "you-eliminated",
                                        [none |-> TRUE]) >>
                             ELSE << >> )
                        \o ( IF playerToSocket[killerId] # NoSock
                             THEN << Ev(playerToSocket[killerId], "new-target",
                                        Assignment(ps1, killerId)) >>
                             ELSE << >> )
                        \o ( IF over
                             THEN << Ev(GameCode, "game-state", [state |-> "finished"]),
                                     Ev(GameCode, "game-over",
                                        [winner_id |-> winner,
                                         winner_name |-> ps1[winner].name]),
                                     Ev(GameCode, "navigate-victory",
                                        [gameCode |-> GameCode]) >>
                             ELSE << >> ) ]

\* The time is read by the insert alone: a request that writes no record has
\* the same outcome at every time
InsertTimes(tok, killerId, answer) ==
    IF ResolveKillError(tok, killerId) = "ok" /\ IsConfirm(answer)
    THEN CurrentTimestamps
    ELSE { CHOOSE now \in CurrentTimestamps : TRUE }

ResolveKill(c, tok, killerId, answer) ==
    /\ c \in connected
    /\ \E now \in InsertTimes(tok, killerId, answer) :
         Apply(ResolveKillResult(c, tok, killerId, answer, now))

\* ---------------------------------------------------------------- game-summary
\* winner = alivePlayers.length === 1 ? alivePlayers[0] : null
SummaryWinner(ps) ==
    IF Len(ListAlivePlayers(ps)) = 1 THEN ListAlivePlayers(ps)[1] ELSE NoPlayer

\* The rows of historyRows before ORDER BY: kh.* with killer_name, victim_name
\* and is_own_kill, here in the order of insertion
KillHistoryRows(ps, ks, tok) ==
    [ i \in DOMAIN ks |->
        [ killer_id |-> ks[i].killer, victim_id |-> ks[i].victim,
          task |-> ks[i].task, timestamp |-> ks[i].timestamp,
          killer_name |-> ps[ks[i].killer].name,
          victim_name |-> ps[ks[i].victim].name,
          is_own_kill |-> tok # NoToken /\ ps[ks[i].killer].token = tok ] ]

\* A variant of KillCountOf that counts the records in which p is the victim
KillCountOfVictim(ks, p) == Cardinality({ i \in DOMAIN ks : ks[i].victim = p })

\* COUNT(kh.id) of the kills whose killer_id is p
KillCountOf(ks, p) == Cardinality({ i \in DOMAIN ks : ks[i].killer = p })

\* ORDER BY count DESC, p.name ASC
RECURSIVE OrderByKills(_, _, _)
OrderByKills(ps, ks, ids) ==
    IF ids = {} THEN << >>
    ELSE LET first == CHOOSE p \in ids : \A q \in ids \ {p} :
                        \/ KillCountOf(ks, p) > KillCountOf(ks, q)
                        \/ /\ KillCountOf(ks, p) = KillCountOf(ks, q)
                           /\ RowBefore(ps, p, q)
         IN  << [name |-> ps[first].name, count |-> KillCountOf(ks, first)] >>
               \o OrderByKills(ps, ks, ids \ {first})

\* SELECT name FROM players WHERE session_token = ? AND game_id = ?
CurrentPlayerName(ps, tok) ==
    IF PlayerBySession(ps, tok) = NoPlayer THEN "null"
    ELSE ps[PlayerBySession(ps, tok)].name

\* ORDER BY kh.timestamp ASC: the orders in which the rows can be returned.
\* The query gives rows of equal timestamp no order between them.
HistoryOrders(ks) ==
    { o \in [DOMAIN ks -> DOMAIN ks] :
        /\ \A i, j \in DOMAIN ks : i # j => o[i] # o[j]
        /\ \A i, j \in DOMAIN ks : i < j => ks[o[i]].timestamp <= ks[o[j]].timestamp }

\* GET /api/game-summary?gameCode=..&sessionToken=tok for an existing game: the
\* response body with the history rows returned in the order o, served
\* whatever the status of the game
GameSummary(ps, ks, tok, o) ==
    [ winner_name |-> IF SummaryWinner(ps) = NoPlayer THEN "null"
                      ELSE ps[SummaryWinner(ps)].name,
      kill_history |-> [ i \in DOMAIN ks |-> KillHistoryRows(ps, ks, tok)[o[i]] ],
      kill_count |-> OrderByKills(ps, ks, DOMAIN ps),
      current_player_name |-> CurrentPlayerName(ps, tok) ]

\* ------------------------------------------------------------- specifications
\* The operations, with the requests drawn from the given input domains
Step(socks, nameLists, pools, claimPins) ==
    \/ \E c \in socks : Connect(c)
    \/ \E c \in socks : Disconnect(c)
    \/ \E names \in nameLists, tasks \in pools : CreateGame(names, tasks)
    \/ \E c \in socks : JoinGame(c)
    \/ \E c \in socks, name \in NameInputs, pin \in claimPins : ClaimIdentity(c, name, pin)
    \/ \E c \in socks, tok \in TokenInputs : CancelIdentity(c, tok)
    \/ \E c \in socks, name \in NameInputs, pin \in Pins : ReclaimIdentity(c, name, pin)
    \/ \E c \in socks, creatorToken \in CreatorInputs : StartGame(c, creatorToken)
    \/ \E c \in socks, tok \in TokenInputs : ClaimKill(c, tok)
    \/ \E c \in socks, tok \in TokenInputs, killerId \in KillerInputs,
          answer \in Answers : ResolveKill(c, tok, killerId, answer)

\* Three players joining over one connection: the assignment engine and the
\* game state machine.
Next == Step({"c1"}, NameLists, TaskPools, ClaimPins)
Spec == Init /\ [][Next]_vars

\* Two players and two connections: identity, sessions and channel bindings.
NextSessions == Step(Sockets, PairLists, TaskPools, ClaimPins)
SpecSessions == Init /\ [][NextSessions]_vars

\* Two players on one connection, with both PINs in claims, with name lists
\* that repeat a name and with task pools that repeat a line or are smaller
\* than the number of players.
NextInputs == Step({"c1"}, NameListInputs, PoolInputs, Pins)
SpecInputs == Init /\ [][NextInputs]_vars

\* ------------------------------------------------------------ process crash
\* The process dies while a handler runs and is started again: the tables keep
\* what was committed (durable = << status, players, kills >>), both maps and
\* every socket.data are lost with the process, and every connection is closed.
Crashed(durable) ==
    /\ gameStatus' = durable[1]
    /\ players' = durable[2]
    /\ kills' = durable[3]
    /\ connected' = {}
    /\ sockData' = [c \in Sockets |-> NoToken]
    /\ sessionToSocket' = [t \in Tokens |-> NoSock]
    /\ playerToSocket' = [p \in PlayerSlots |-> NoSock]
    /\ UNCHANGED << taskPool, nextTok >>

\* A variant of StartGameDurable in which the status is written after the
\* transaction of the assignments has committed
StartGameDurableSplit(r) ==
    { Persisted(Same), << gameStatus, r.players, kills >>, Persisted(r) }

\* start-game with outcome r: what a crash can leave in the tables. The
\* assignments and setGameStatus.run('active') are one db.transaction, which
\* is either rolled back or committed as a whole.
StartGameDurable(r) == { Persisted(Same), Persisted(r) }

StartGameCrash(c, creatorToken) ==
    /\ c \in connected
    /\ \E draws \in DrawsOf(creatorToken) :
         \E durable \in StartGameDurable(StartGameResult(c, creatorToken, draws)) :
           Crashed(durable)

\* resolve-kill with outcome r: what a crash can leave in the tables. The
\* elimination and the kill record are one db.transaction; after it has
\* committed come the broadcasts, the count of the alive players and, as a
\* statement of its own, setGameStatus.run('finished').
ResolveKillDurable(r) ==
    { Persisted(Same), << gameStatus, r.players, r.kills >>, Persisted(r) }

ResolveKillCrash(c, tok, killerId, answer) ==
    /\ c \in connected
    /\ \E now \in InsertTimes(tok, killerId, answer) :
         \E durable \in ResolveKillDurable(
                           ResolveKillResult(c, tok, killerId, answer, now)) :
           Crashed(durable)

\* Two players on one connection, with the process crashing in start-game and
\* in resolve-kill.
NextCrash ==
    \/ Step({"c1"}, PairLists, TaskPools, ClaimPins)
    \/ \E creatorToken \in CreatorInputs : StartGameCrash("c1", creatorToken)
    \/ \E tok \in TokenInputs, killerId \in KillerInputs, answer \in Answers :
         ResolveKillCrash("c1", tok, killerId, answer)
SpecCrash == Init /\ [][NextCrash]_vars

\* ================================================================ properties
\* The player reached from p by following k target links
RECURSIVE TargetAfter(_, _, _)
TargetAfter(ps, p, k) == IF k = 0 THEN p ELSE TargetAfter(ps, ps[p].target, k - 1)

\* The targets of the alive players form one cycle through all of them
SingleCycle(ps) ==
    LET A == AliveIn(ps)
        n == Cardinality(A)
    IN  /\ \A p \in A : ps[p].target \in A \ {p}
        /\ \A p \in A : /\ { TargetAfter(ps, p, k) : k \in 0..(n - 1) } = A
                        /\ TargetAfter(ps, p, n) = p

\* The outcome r tells connection c of an error and leaves every table alone
RejectedWithError(r, c) ==
    /\ Persisted(r) = Persisted(Same)
    /\ \E i \in DOMAIN r.out : r.out[i].ev = "error" /\ r.out[i].to = c

\* The outcome r emits event ev
Emits(r, ev) == \E i \in DOMAIN r.out : r.out[i].ev = ev

\* C1: in every reachable state of an active game with at least two alive
\* players, the targets of the alive players form exactly one cycle through
\* all alive players.
C1_AliveTargetsFormOneCycle ==
    (gameStatus = "active" /\ Cardinality(Alive) >= 2) => SingleCycle(players)

\* C2: a successful start-game on a lobby game with n >= 2 alive players leaves,
\* for every outcome of the shuffles, every alive player with a non-null target
\* and a non-null task, nobody targeting themselves, and one n-cycle of targets.
C2_StartBuildsOneCycle ==
    gameStatus = "lobby" =>
      \A c \in connected, creatorToken \in CreatorInputs :
        \A draws \in DrawsOf(creatorToken) :
          LET r == StartGameResult(c, creatorToken, draws)
          IN  r.gameStatus = "active" =>
                /\ Cardinality(Alive) >= 2
                /\ AliveIn(r.players) = Alive
                /\ \A p \in Alive : /\ r.players[p].target # NoPlayer
                                    /\ r.players[p].target # p
                                    /\ r.players[p].task # NoTask
                /\ SingleCycle(r.players)

\* A game of three alive players that has just been started
C2_Witness ==
    /\ gameStatus = "active"
    /\ kills = << >>
    /\ Cardinality(Alive) = Cardinality(PlayerIds)
    /\ Cardinality(Alive) > 2
    /\ SingleCycle(players)
    /\ \A p \in Alive : players[p].task # NoTask

\* C3: in an active game whose alive players are A and B targeting each other,
\* a confirmed resolve-kill by B naming killer A leaves B eliminated, A without
\* a target and the game finished, and broadcasts game-over naming A to the room.
C3_TwoPlayerEndgame ==
    \A c \in connected, tok \in TokenInputs, A \in PlayerIds, answer \in Answers,
       now \in CurrentTimestamps :
      LET B == PlayerBySession(players, tok)
      IN  ( /\ gameStatus = "active"
            /\ B # NoPlayer
            /\ A # B
            /\ Alive = {A, B}
            /\ players[A].target = B
            /\ players[B].target = A
            /\ IsConfirm(answer) )
          => LET r == ResolveKillResult(c, tok, A, answer, now)
             IN  /\ r.players[B].status = "eliminated"
                 /\ r.players[A].status = "alive"
                 /\ r.players[A].target = NoPlayer
                 /\ r.gameStatus = "finished"
                 /\ Ev(GameCode, "game-over",
                       [winner_id |-> A, winner_name |-> players[A].name])
                      \in Range(r.out)

\* A two-player game ended by its single confirmed kill
C3_Witness ==
    /\ gameStatus = "finished"
    /\ Len(kills) = 1
    /\ players[kills[1].victim].status = "eliminated"
    /\ players[kills[1].killer].status = "alive"
    /\ players[kills[1].killer].target = NoPlayer

\* The step is a successful start-game
IsStartStep ==
    /\ Cardinality(Alive) >= 2
    /\ StartGameError(CreatorToken) = "ok"
    /\ \E c \in connected, a \in RandomDraws(Cardinality(Alive)) :
         LET shuffled == ShuffleArray(ListAlivePlayers(players), a)
         IN  /\ \A i \in DOMAIN shuffled :
                  players'[shuffled[i]].target = TargetOf(shuffled, i)
             /\ \E draws \in StartDrawsWith(Cardinality(Alive),
                                             Len(ParsedTasks(taskPool)), a) :
                  LET r == StartGameResult(c, CreatorToken, draws)
                  IN  /\ r.gameStatus = "active"
                      /\ << gameStatus', players', kills' >> = Persisted(r)

\* The step is a confirmed resolve-kill that leaves exactly one alive player
IsLastKillStep ==
    \E c \in connected, tok \in TokenInputs, killerId \in PlayerIds,
       answer \in Answers, now \in CurrentTimestamps :
      LET r == ResolveKillResult(c, tok, killerId, answer, now)
      IN  /\ ResolveKillError(tok, killerId) = "ok"
          /\ IsConfirm(answer)
          /\ Cardinality(AliveIn(r.players)) = 1
          /\ << gameStatus', players', kills' >> = Persisted(r)

\* C4: the status only moves lobby -> active -> finished; lobby -> active only
\* in a successful start-game, active -> finished only in a confirmed
\* resolve-kill leaving exactly one alive player, never lobby -> finished, and
\* finished never changes.
C4_StatusMachine ==
    [][ /\ gameStatus = "lobby" => gameStatus' \in {"lobby", "active"}
        /\ gameStatus = "active" => gameStatus' \in {"active", "finished"}
        /\ gameStatus = "finished" => gameStatus' = "finished"
        /\ (gameStatus = "lobby" /\ gameStatus' = "active") => IsStartStep
        /\ (gameStatus = "active" /\ gameStatus' = "finished") => IsLastKillStep
      ]_vars

\* A three-player game played to its end: both transitions were taken
C4_Witness ==
    /\ gameStatus = "finished"
    /\ Len(kills) >= 2
    /\ Cardinality(Alive) = 1

\* C5: while the game is active every claim-identity and every cancel-identity
\* is rejected, so nobody moves between not-joined and alive.
C5_NoJoinLeaveWhileActive ==
    gameStatus = "active" =>
      \A c \in connected :
        /\ \A name \in NameInputs, pin \in ClaimPins :
             \A p \in Selected(ClaimCandidates(players, name)) :
               RejectedWithError(ClaimIdentityResult(c, name, pin, p), c)
        /\ \A tok \in TokenInputs :
             \A p \in Selected(CancelCandidates(players, tok)) :
               RejectedWithError(CancelIdentityResult(c, tok, p), c)

\* C6: once the game is finished no event changes the game row, a player row
\* (status, session token, target, task, PIN hash) or the kill history.
C6_FinishedIsFrozen ==
    [][ gameStatus = "finished" =>
          << gameStatus', players', kills' >> = << gameStatus, players, kills >>
      ]_vars

\* C7: after the game has finished, the winner the summary derives stays the
\* player named in game-over, whatever events arrive.
C7_WinnerStable ==
    [][ gameStatus = "finished" =>
          /\ SummaryWinner(players) # NoPlayer
          /\ SummaryWinner(players') = SummaryWinner(players)
      ]_vars

\* C8: a resolve-kill naming a killer whose current target is not the requester
\* is rejected with an error to the requester and changes no persisted state,
\* whatever the answer.
C8_NotTheirTargetRejected ==
    \A c \in connected, tok \in TokenInputs, killerId \in PlayerIds,
       answer \in Answers :
      LET requester == PlayerBySession(players, tok)
      IN  (requester = NoPlayer \/ players[killerId].target # requester)
          => \A now \in CurrentTimestamps :
               RejectedWithError(ResolveKillResult(c, tok, killerId, answer, now), c)

\* An alive requester names an alive killer who is hunting somebody else
C8_Witness ==
    \E c \in connected, tok \in TokenInputs, killerId \in PlayerIds,
       now \in CurrentTimestamps :
      /\ gameStatus = "active"
      /\ ResolveKillError(tok, killerId) = "You are not their current target."
      /\ killerId # PlayerBySession(players, tok)
      /\ ResolveKillResult(c, tok, killerId, "confirm", now)
           = Reject(c, "You are not their current target.")

\* C9: start-game succeeds only with the creator's token, on a lobby game with
\* at least two alive players; in every other case the requester receives an
\* error event and no target, task or game status changes.
C9_StartGuarded ==
    gameStatus # "none" =>
      \A c \in connected, creatorToken \in CreatorInputs :
        \A draws \in DrawsOf(creatorToken) :
          LET r == StartGameResult(c, creatorToken, draws)
              allowed == /\ creatorToken = CreatorToken
                         /\ gameStatus = "lobby"
                         /\ Cardinality(Alive) >= 2
          IN  IF allowed THEN r.gameStatus = "active"
              ELSE RejectedWithError(r, c)

\* C10: claim-identity succeeds only for a not-joined player of the game; on
\* success that player is alive with a fresh non-null session token bound to the
\* claiming connection; a claim for a name with no not-joined player (alive,
\* eliminated or unknown) yields 'Player not found or already claimed' to the
\* requester and changes no player.
C10_ClaimOnlyNotJoined ==
    (gameStatus # "none" /\ nextTok \in Tokens) =>
      \A c \in connected, name \in NameInputs, pin \in ClaimPins :
        \A p \in Selected(ClaimCandidates(players, name)) :
          LET r == ClaimIdentityResult(c, name, pin, p)
              unclaimed == { q \in PlayerIds : /\ players[q].name = name
                                               /\ players[q].status = "not-joined" }
          IN  /\ Emits(r, "identity-confirmed") <=> unclaimed # {}
              /\ unclaimed # {} =>
                   /\ p \in unclaimed
                   /\ r.players[p].status = "alive"
                   /\ r.players[p].token # NoToken
                   /\ \A q \in PlayerIds : players[q].token # r.players[p].token
                   /\ sessionToSocket[r.players[p].token] = NoSock
                   /\ \A q \in PlayerIds \ {p} : r.players[q] = players[q]
                   /\ r.sessionToSocket[r.players[p].token] = c
                   /\ r.playerToSocket[p] = c
                   /\ r.sockData[c] = r.players[p].token
              /\ unclaimed = {} =>
                   /\ r.out = << Error(c, "Player not found or already claimed") >>
                   /\ r.players = players

\* A claimed player bound to its connection, for whom a second claim is refused
C10_Witness ==
    \E c \in connected, p \in Alive :
      /\ players[p].token # NoToken
      /\ playerToSocket[p] = c
      /\ sessionToSocket[players[p].token] = c
      /\ ClaimCandidates(players, players[p].name) = {}
      /\ ClaimIdentityResult(c, players[p].name, "1234", NoPlayer)
           = Reject(c, "Player not found or already claimed")

\* C11: cancel-identity succeeds only when the token is the session token of an
\* alive player; that player then is not-joined with no session token and no
\* join time, its channel bindings are removed and its PIN hash is unchanged;
\* with any other token the requester gets an error and nothing changes.
C11_CancelResetsPlayer ==
    gameStatus # "none" =>
      \A c \in connected, tok \in TokenInputs :
        \A p \in Selected(CancelCandidates(players, tok)) :
          LET r == CancelIdentityResult(c, tok, p)
              holders == { q \in PlayerIds : /\ players[q].token = tok
                                             /\ players[q].status = "alive" }
          IN  /\ Emits(r, "identity-canceled") <=> holders # {}
              /\ holders # {} =>
                   /\ holders = {p}
                   /\ r.players[p] = [players[p] EXCEPT !.status = "not-joined",
                                                        !.token = NoToken,
                                                        !.joined = FALSE]
                   /\ r.players[p].pin = players[p].pin
                   /\ players[p].pin # NoPin
                   /\ \A q \in PlayerIds \ {p} : r.players[q] = players[q]
                   /\ r.playerToSocket[p] = NoSock
                   /\ r.sessionToSocket[tok] = NoSock
                   /\ r.gameStatus = gameStatus /\ r.kills = kills
              /\ holders = {} =>
                   /\ RejectedWithError(r, c)
                   /\ Bindings(r) = Bindings(Same)
                   /\ r.sockData = sockData

\* A player who claimed and then cancelled, while an unknown token is refused
C11_Witness ==
    \E c \in connected, p \in PlayerIds, tok \in TokenInputs :
      /\ players[p].status = "not-joined"
      /\ players[p].pin # NoPin
      /\ players[p].token = NoToken
      /\ playerToSocket[p] = NoSock
      /\ CancelCandidates(players, tok) = {}
      /\ CancelIdentityResult(c, tok, NoPlayer)
           = Reject(c, "Invalid session or player not found")

\* C12: in a lobby game, for a player who claimed with a PIN and then cancelled,
\* reclaim-identity with the same PIN succeeds, makes the player alive and
\* issues a session token different from every token issued before, while
\* reclaim-identity with another PIN fails and leaves the player's status,
\* session token and PIN hash unchanged.
C12_ReclaimAfterCancel ==
    (gameStatus = "lobby" /\ nextTok \in Tokens) =>
      \A c \in connected, p \in PlayerIds, pin \in Pins :
        (players[p].status = "not-joined" /\ players[p].pin # NoPin) =>
          LET r == ReclaimIdentityResult(c, players[p].name, pin, p)
          IN  /\ \A q \in PlayerIds : players[q].token < nextTok
              /\ players[p].token = NoToken
              /\ IF players[p].pin = Sha256(pin)
                 THEN /\ Emits(r, "identity-reclaimed")
                      /\ r.players[p].status = "alive"
                      /\ r.players[p].token # NoToken
                      /\ r.players[p].token \notin 1..(nextTok - 1)
                      /\ r.players[p].pin = players[p].pin
                      /\ r.playerToSocket[p] = c
                 ELSE /\ ~Emits(r, "identity-reclaimed")
                      /\ Error(c, "Reclaim failed.") \in Range(r.out)
                      /\ r.players[p] = players[p]

\* A lobby player alive again through a reclaim after a cancel (the reclaim
\* does not restore the join time), for whom the other PIN is refused
C12_Witness ==
    \E c \in connected, p \in PlayerIds :
      /\ gameStatus = "lobby"
      /\ players[p].status = "alive"
      /\ ~players[p].joined
      /\ players[p].token > 1
      /\ players[p].pin = Sha256("1234")
      /\ Error(c, "Reclaim failed.")
           \in Range(ReclaimIdentityResult(c, players[p].name, "9999", p).out)

\* The events of outcome r that connection c receives, directly or as a member
\* of the game room
Received(r, c) == SelectSeq(r.out, LAMBDA e : e.to \in {c, GameCode})

\* Why a reclaim of name with pin fails in the current state, "none" if it does not
ReclaimFailureCause(name, pin) ==
    LET named == { p \in PlayerIds : players[p].name = name }
    IN  IF named = {} THEN "no such player"
        ELSE IF \A p \in named : players[p].pin = NoPin THEN "never set a PIN"
        ELSE IF \A p \in named : ~PinMatches(players[p], pin) THEN "wrong PIN"
        ELSE "none"

\* The requested name is not the name of the player whose session c holds
NamesAnotherPlayer(c, name) ==
    LET held == PlayerBySession(players, sockData[c])
    IN  held # NoPlayer /\ players[held].name # name

C14_OldSessionInvalidated ==
    (gameStatus # "none" /\ nextTok \in Tokens) =>
      \A c \in connected, name \in NameInputs, pin \in Pins :
        \A p \in ReclaimCandidates(ReleaseResult(c, name).players, name) :
          LET r == ReclaimIdentityResult(c, name, pin, p)
              old == players[p].token
          IN  (Emits(r, "identity-reclaimed") /\ old # NoToken) =>
                /\ r.players[p].token # old
                /\ PlayerBySession(r.players, old) = NoPlayer
                /\ CancelCandidates(r.players, old) = {}
                /\ CurrentPlayerName(r.players, old) = "null"
                /\ \A i \in DOMAIN r.kills :
                     ~KillHistoryRows(r.players, r.kills, old)[i].is_own_kill
                /\ sessionToSocket[old] \notin {NoSock, c} =>
                     /\ sessionToSocket[old] \in connected
                     /\ Ev(sessionToSocket[old], "session-invalidated",
                           [none |-> TRUE]) \in Range(r.out)
                     /\ r.sessionToSocket[old] = NoSock

\* A player whose session on one channel was taken over from another channel
C14_Witness ==
    \E c \in connected, p \in PlayerIds, old \in Tokens :
      /\ players[p].token # NoToken
      /\ old < players[p].token
      /\ playerToSocket[p] = c
      /\ \E d \in connected \ {c} : sockData[d] = old
      /\ PlayerBySession(players, old) = NoPlayer
      /\ sessionToSocket[old] = NoSock
      /\ players[p].joined
      /\ \A q \in PlayerIds \ {p} : players[q].status = "not-joined" /\ players[q].pin = NoPin

\* C15: in every reachable state a connection is bound, in the player-id ->
\* channel lookup, to at most one player of the game.
C15_OneIdentityPerConnection ==
    \A c \in Sockets :
      Cardinality({ p \in PlayerIds : playerToSocket[p] = c }) <= 1

\* An outcome that answers connection c with an error leaves the tables and the
\* channel bindings as they were
ErrorMeansUntouched(r, c) ==
    (\E e \in Range(r.out) : e.ev = "error" /\ e.to = c)
      => /\ Persisted(r) = Persisted(Same)
         /\ Bindings(r) = Bindings(Same)

\* C16: every rejected operation (one that answers the requester with an error
\* event) leaves games, players, kill_history and the channel bindings exactly
\* as they were; in particular a reclaim-identity failing on name or PIN
\* changes no player's session token.
C16_RejectionsChangeNothing ==
    \A c \in connected :
      /\ \A name \in NameInputs, pin \in Pins :
           /\ \A p \in Selected(ClaimCandidates(players, name)) :
                ErrorMeansUntouched(ClaimIdentityResult(c, name, pin, p), c)
           /\ \A p \in Selected(ReclaimCandidates(ReleaseResult(c, name).players, name)) :
                ErrorMeansUntouched(ReclaimIdentityResult(c, name, pin, p), c)
      /\ \A tok \in TokenInputs :
           /\ \A p \in Selected(CancelCandidates(players, tok)) :
                ErrorMeansUntouched(CancelIdentityResult(c, tok, p), c)
           /\ ErrorMeansUntouched(ClaimKillResult(c, tok), c)
           /\ \A killerId \in KillerInputs, answer \in Answers,
                 now \in CurrentTimestamps :
                ErrorMeansUntouched(ResolveKillResult(c, tok, killerId, answer, now), c)
      /\ \A creatorToken \in CreatorInputs :
           \A draws \in DrawsOf(creatorToken) :
             ErrorMeansUntouched(StartGameResult(c, creatorToken, draws), c)

\* The events that carry something for one player only
PrivateEvents ==
    {"your-assignment", "kill-challenge", "new-target", "kill-denied", "you-eliminated"}
Private(r) == SelectSeq(r.out, LAMBDA e : e.ev \in PrivateEvents)
Named(r, ev) == SelectSeq(r.out, LAMBDA e : e.ev = ev)

\* The channel bound to a player is a connected one, and the one to which the
\* player's current session token was issued by its latest claim or reclaim
BoundToLatestSession ==
    \A P \in PlayerIds :
      playerToSocket[P] # NoSock =>
        /\ playerToSocket[P] \in connected
        /\ players[P].token # NoToken
        /\ sessionToSocket[players[P].token] = playerToSocket[P]

SummaryHidesTaskOf(P) ==
    \A tok \in {NoToken} \cup TokenInputs, o \in HistoryOrders(kills) :
      PlayerBySession(players, tok) # P =>
        \A row \in Range(GameSummary(players, kills, tok, o).kill_history) :
          ~(row.killer_id = P /\ row.task = players[P].task)

\* No event sent to the whole room has a target or a task in its payload
RoomEventsCarryNoAssignment(r) ==
    \A e \in Range(r.out) :
      e.to = GameCode => DOMAIN e.data \cap {"target", "task"} = {}

\* C18: while the game is active, the current target and task of an alive
\* player P reach nobody but the channel bound to P (and P's target, in the
\* kill-challenge): not through room-wide events and not through the game
\* summary and its kill history, whoever requests it.
C18_AssignmentsStaySecret ==
    gameStatus = "active" =>
      /\ \A P \in Alive : players[P].task # NoTask => SummaryHidesTaskOf(P)
      /\ \A c \in connected, tok \in TokenInputs, killerId \in KillerInputs,
            answer \in Answers, now \in CurrentTimestamps :
           RoomEventsCarryNoAssignment(ResolveKillResult(c, tok, killerId, answer, now))

\* C19: once a claim has set a player's PIN hash, the hash never changes and is
\* never cleared again: not by cancel-identity, not by reclaim-identity and not
\* by a later claim-identity of the same player with another PIN.
C19_PinHashIsPermanent ==
    [][ \A p \in DOMAIN players \cap DOMAIN players' :
          players[p].pin # NoPin => players'[p].pin = players[p].pin
      ]_vars

\* Start-game assigns no task string to two different players
DistinctTasks(ps) ==
    \A P \in AliveIn(ps), Q \in AliveIn(ps) : P # Q => ps[P].task # ps[Q].task

\* C20: when the task pool has at least as many entries as there are alive
\* players at start, start-game assigns no task string to two different
\* players, for every pool that game creation accepts and every shuffle.
C20_NoRepeatedTask ==
    gameStatus = "lobby" =>
      \A c \in connected : \A draws \in DrawsOf(CreatorToken) :
        LET r == StartGameResult(c, CreatorToken, draws)
        IN  ( /\ r.gameStatus = "active"
              /\ Len(ParsedTasks(taskPool)) >= Cardinality(Alive) )
            => DistinctTasks(r.players)

\* The number of players with this name who made this number of kills
PlayersWith(name, count) ==
    { p \in PlayerIds :
        /\ players[p].name = name
        /\ Cardinality({ i \in DOMAIN kills : kills[i].killer = p }) = count }

\* The list is in the order of the query and has every player once
KillCountListed(list) ==
    /\ Len(list) = Cardinality(PlayerIds)
    /\ \A p \in PlayerIds :
          \E i \in DOMAIN list : p \in PlayersWith(list[i].name, list[i].count)
    /\ \A i \in DOMAIN list :
          Cardinality({ j \in DOMAIN list : list[j] = list[i] })
            = Cardinality(PlayersWith(list[i].name, list[i].count))
    /\ \A i, j \in DOMAIN list :
          i < j =>
            \/ list[i].count > list[j].count
            \/ /\ list[i].count = list[j].count
               /\ NameRank(list[i].name) <= NameRank(list[j].name)

\* C21: the kill_count list of the game summary has one entry per player of
\* the game, players without a kill included; an entry's count is the number of
\* kill records whose killer is that player; the entries are ordered by count
\* descending and, within a count, by name ascending; the list does not depend
\* on who asks or on the order of the history rows.
C21_KillCountList ==
    gameStatus # "none" =>
      LET any == CHOOSE o \in HistoryOrders(kills) : TRUE
          list == GameSummary(players, kills, NoToken, any).kill_count
      IN  /\ KillCountListed(list)
          /\ \A o \in HistoryOrders(kills) :
                GameSummary(players, kills, NoToken, o).kill_count = list
          /\ \A p \in PlayerIds :
                players[p].token # NoToken =>
                  GameSummary(players, kills, players[p].token, any).kill_count = list

\* Two players with one kill each are listed by name before the player without
\* a kill, whose name sorts between theirs
C21_Witness ==
    \E o \in HistoryOrders(kills) :
      LET list == GameSummary(players, kills, NoToken, o).kill_count
      IN  /\ Len(list) = 3
          /\ list[1].count = 1 /\ list[2].count = 1 /\ list[3].count = 0
          /\ NameRank(list[1].name) < NameRank(list[3].name)
          /\ NameRank(list[3].name) < NameRank(list[2].name)

\* C22: the kill history of the game summary lists the records in the order in
\* which the eliminations were committed: in every response the i-th row is the
\* i-th record written, also when two eliminations fall in the same second.
C22_HistoryInCommitOrder ==
    \A tok \in {NoToken} \cup TokenInputs, o \in HistoryOrders(kills) :
      \A i \in DOMAIN kills :
        GameSummary(players, kills, tok, o).kill_history[i]
          = KillHistoryRows(players, kills, tok)[i]

\* C23: no two players of the game have the same display name, whatever list
\* of names create-game accepted.
C23_UniqueNames ==
    \A p, q \in PlayerIds : p # q => players[p].name # players[q].name

\* The players eliminated in a players table
EliminatedIn(ps) == { p \in DOMAIN ps : ps[p].status = "eliminated" }

\* The kill records whose victim is p
RecordsOfVictim(p) == { i \in DOMAIN kills : kills[i].victim = p }

\* C24: the kill history is append-only and in step with the eliminations. A
\* step in which a player becomes eliminated eliminates one player and appends
\* one record, naming that player as the victim, and every other step leaves
\* the history as it was; so there are as many records as eliminated players,
\* and every eliminated player is the victim of exactly one record.
C24_HistoryInStep ==
    /\ [] ( /\ Len(kills) = Cardinality(EliminatedIn(players))
            /\ \A p \in PlayerIds :
                 Cardinality(RecordsOfVictim(p))
                   = IF p \in EliminatedIn(players) THEN 1 ELSE 0 )
    /\ [][ LET newly == EliminatedIn(players') \ EliminatedIn(players)
           IN  /\ EliminatedIn(players) \subseteq EliminatedIn(players')
               /\ IF newly = {} THEN kills' = kills
                  ELSE /\ Cardinality(newly) = 1
                       /\ Len(kills') = Len(kills) + 1
                       /\ SubSeq(kills', 1, Len(kills)) = kills
                       /\ kills'[Len(kills')].victim \in newly ]_vars

\* Two eliminations have been confirmed and two records written
C24_Witness ==
    /\ Len(kills) = 2
    /\ Cardinality(EliminatedIn(players)) = 2
    /\ kills[1].victim # kills[2].victim

\* C25: when at least three players are alive and their targets form a single
\* cycle in which K targets V, a confirmed resolve-kill of V by K leaves V
\* eliminated and K targeting the player V targeted, changes the target of no
\* other player, and leaves the other alive players in a single cycle.
C25_CycleContracts ==
    \A c \in connected, tok \in TokenInputs, K \in PlayerIds, answer \in Answers,
       now \in CurrentTimestamps :
      LET V == PlayerBySession(players, tok)
          r == ResolveKillResult(c, tok, K, answer, now)
      IN  ( /\ Cardinality(Alive) >= 3
            /\ SingleCycle(players)
            /\ V \in Alive
            /\ K \in Alive
            /\ players[K].target = V
            /\ IsConfirm(answer) )
          => /\ r.players[V].status = "eliminated"
             /\ r.players[K].target = players[V].target
             /\ \A p \in PlayerIds \ {K} : r.players[p].target = players[p].target
             /\ AliveIn(r.players) = Alive \ {V}
             /\ SingleCycle(r.players)

\* The first elimination of a three-player game: the killer has taken over the
\* victim's target and the two survivors hunt each other
C25_Witness ==
    /\ gameStatus = "active"
    /\ Len(kills) = 1
    /\ Cardinality(Alive) = 2
    /\ SingleCycle(players)
    /\ players[kills[1].killer].target = players[kills[1].victim].target
    /\ players[kills[1].victim].status = "eliminated"

\* C26: a confirmed elimination and the transition to finished that goes with
\* it are all-or-nothing, also when the process crashes inside the handler: a
\* step that eliminates a player and leaves exactly one player alive leaves
\* the game finished.
C26_EliminationAllOrNothing ==
    [][ ( /\ EliminatedIn(players') # EliminatedIn(players)
          /\ Cardinality(AliveIn(players')) = 1 )
        => gameStatus' = "finished" ]_vars

\* C27: the writes of start-game are all-or-nothing, also when the process
\* crashes inside the handler: while the game is in the lobby no player has a
\* target or a task, and the step that makes the game active leaves every
\* player who was alive at the start with a target and a task.
C27_StartAllOrNothing ==
    /\ [] ( gameStatus = "lobby" =>
              \A p \in PlayerIds :
                players[p].target = NoPlayer /\ players[p].task = NoTask )
    /\ [][ (gameStatus = "lobby" /\ gameStatus' = "active") =>
             \A p \in Alive :
               players'[p].target # NoPlayer /\ players'[p].task # NoTask ]_vars

\* The game has been started and the process has lost its maps: the tables
\* hold the whole assignment, and the sessions are bound to no channel
C27_Witness ==
    /\ gameStatus = "active"
    /\ kills = << >>
    /\ Cardinality(Alive) = 2
    /\ \A p \in Alive : players[p].target # NoPlayer /\ players[p].task # NoTask
    /\ connected = {}
    /\ \A p \in Alive : sessionToSocket[players[p].token] = NoSock

\* C28: a resolve-kill that passes the checks of the handler and whose answer
\* is not 'confirm' in any letter case changes no table, no binding and no
\* session data, and emits exactly one event, kill-denied, to the channel bound
\* to the killer, or no event when the killer is bound to no channel; nothing
\* goes to the room.
C28_DenialChangesNothing ==
    \A c \in connected, tok \in TokenInputs, killerId \in KillerInputs,
       answer \in Answers, now \in CurrentTimestamps :
      LET r == ResolveKillResult(c, tok, killerId, answer, now)
      IN  (ResolveKillError(tok, killerId) = "ok" /\ ToLowerCase(answer) # "confirm")
          => /\ Persisted(r) = Persisted(Same)
             /\ Bindings(r) = Bindings(Same)
             /\ r.sockData = sockData
             /\ r.nextTok = nextTok
             /\ \A e \in Range(r.out) :
                   /\ e.ev = "kill-denied"
                   /\ e.to = playerToSocket[killerId]
                   /\ e.to # GameCode
             /\ Len(r.out) = IF playerToSocket[killerId] = NoSock THEN 0 ELSE 1

\* The victim denies on one connection while the killer is bound to another
C28_Witness ==
    \E c \in connected, tok \in TokenInputs, killerId \in PlayerIds,
       now \in CurrentTimestamps :
      /\ ResolveKillError(tok, killerId) = "ok"
      /\ playerToSocket[killerId] \in connected \ {c}
      /\ playerToSocket[PlayerBySession(players, tok)] = c
      /\ Len(ResolveKillResult(c, tok, killerId, "deny", now).out) = 1

\* C29: after the confirmed elimination of V by K, the task of K is the task V
\* had immediately before, and the task of no other player has changed.
C29_KillerInheritsTask ==
    \A c \in connected, tok \in TokenInputs, K \in PlayerIds, answer \in Answers,
       now \in CurrentTimestamps :
      LET V == PlayerBySession(players, tok)
          r == ResolveKillResult(c, tok, K, answer, now)
      IN  (ResolveKillError(tok, K) = "ok" /\ IsConfirm(answer))
          => /\ r.players[K].task = players[V].task
             /\ \A p \in PlayerIds \ {K} : r.players[p].task = players[p].task

\* After the first elimination of a three-player game the killer holds the
\* task of the victim, which no other player holds
C29_Witness ==
    /\ gameStatus = "active"
    /\ Len(kills) = 1
    /\ Cardinality(PlayerIds) = 3
    /\ players[kills[1].killer].task = players[kills[1].victim].task
    /\ players[kills[1].killer].task # NoTask
    /\ \A p \in PlayerIds \ {kills[1].killer, kills[1].victim} :
         players[p].task # players[kills[1].killer].task

\* C30: the task stored in a kill record is the task that was active for that
\* kill: the task the killer K held when the victim confirmed, which is the
\* task a kill-challenge of K shows to the victim at that moment.
C30_RecordHoldsActiveTask ==
    \A c \in connected, tok \in TokenInputs, K \in PlayerIds, answer \in Answers,
       now \in CurrentTimestamps :
      LET r == ResolveKillResult(c, tok, K, answer, now)
      IN  (ResolveKillError(tok, K) = "ok" /\ IsConfirm(answer))
          => /\ r.kills[Len(r.kills)].task = players[K].task
             /\ \A e \in Range(ClaimKillResult(c, players[K].token).out) :
                   e.ev = "kill-challenge" => r.kills[Len(r.kills)].task = e.data.task

\* C31: when the task pool is smaller than the number of alive players, a
\* successful start-game assigns every task of the pool to at least one of
\* them and assigns no task from outside the pool, whatever the shuffles and
\* the extra picks.
C31_SmallPoolCovered ==
    \A c \in connected, creatorToken \in CreatorInputs :
      ( /\ StartGameError(creatorToken) = "ok"
        /\ Len(ParsedTasks(taskPool)) < Cardinality(Alive) )
      => \A draws \in DrawsOf(creatorToken) :
           { StartGameResult(c, creatorToken, draws).players[p].task : p \in Alive }
             = Range(ParsedTasks(taskPool))

\* Three players started on a pool of two tasks: both are in use, one of them
\* twice
C31_Witness ==
    /\ gameStatus = "active"
    /\ kills = << >>
    /\ Cardinality(Alive) = 3
    /\ Len(ParsedTasks(taskPool)) = 2
    /\ { players[p].task : p \in Alive } = Range(ParsedTasks(taskPool))

\* C32: a disconnect of channel c removes from both lookups exactly the entries
\* whose channel is c, leaves the entries of other channels in place and
\* changes no table: the players that were bound to c keep their status,
\* session token, target and task.
C32_DisconnectFrame ==
    [][ \A c \in connected \ connected' :
          /\ \A t \in DOMAIN sessionToSocket :
                sessionToSocket'[t]
                  = IF sessionToSocket[t] = c THEN NoSock ELSE sessionToSocket[t]
          /\ \A p \in DOMAIN playerToSocket :
                playerToSocket'[p]
                  = IF playerToSocket[p] = c THEN NoSock ELSE playerToSocket[p]
          /\ UNCHANGED << gameStatus, players, kills >> ]_vars

\* One channel has gone and its alive player, token kept, is bound to nothing,
\* while the player of the other channel is still bound to it
C32_Witness ==
    \E p, q \in PlayerIds, d \in connected :
      /\ Cardinality(connected) = 1
      /\ players[p].status = "alive" /\ players[p].token # NoToken
      /\ playerToSocket[p] = NoSock /\ sessionToSocket[players[p].token] = NoSock
      /\ players[q].status = "alive" /\ players[q].token # NoToken
      /\ playerToSocket[q] = d /\ sessionToSocket[players[q].token] = d

\* C33: a player's session token is null if and only if the player's status
\* is not-joined.
C33_TokenIffJoined ==
    \A p \in PlayerIds :
      (players[p].token = NoToken) <=> (players[p].status = "not-joined")

\* The step is the claim-identity of connection c with outcome r
IsClaimStep(r) ==
    /\ << gameStatus', players', kills' >> = Persisted(r)
    /\ << sessionToSocket', playerToSocket' >> = Bindings(r)
    /\ nextTok' = r.nextTok
    /\ sockData' = r.sockData

\* C34: two claim-identity requests from different connections for the same
\* not-joined player, in either order (a handler runs to its end before the
\* next one starts): the first is answered with identity-confirmed and no
\* error; the second, whatever its PIN, is answered with an error alone and
\* changes nothing, so the player keeps the token and the PIN hash of the
\* first and is bound to the channel of the first only.
C34_ClaimRace ==
    [][ nextTok' # nextTok =>
        \A c \in connected, name \in NameInputs, pin \in Pins, p \in PlayerIds :
          LET win == ClaimIdentityResult(c, name, pin, p)
          IN  (p \in ClaimCandidates(players, name) /\ IsClaimStep(win))
              => /\ Len(Named(win, "identity-confirmed")) = 1
                 /\ \A e \in Range(win.out) :
                       /\ e.ev # "error"
                       /\ e.ev = "identity-confirmed" => e.to = c
                 /\ \A d \in connected \ {c}, pin2 \in Pins :
                       /\ Selected(ClaimCandidates(players, name))' = {NoPlayer}
                       /\ LET lose == ClaimIdentityResult(d, name, pin2, NoPlayer)'
                          IN  /\ lose.out
                                   = << Error(d, "Player not found or already claimed") >>
                              /\ lose.players = win.players
                              /\ lose.players[p].token = win.players[p].token
                              /\ lose.players[p].pin = Sha256(pin)
                              /\ lose.players[p].status = "alive"
                              /\ lose.playerToSocket[p] = c
                              /\ lose.sessionToSocket[win.players[p].token] = c
                              /\ lose.sockData[d] # win.players[p].token ]_vars

\* After the first claim: the player is bound to its channel, and the claim of
\* a second connected channel for the same name is refused
C34_Witness ==
    \E c \in connected, d \in connected, p \in Alive :
      /\ c # d
      /\ playerToSocket[p] = c
      /\ sessionToSocket[players[p].token] = c
      /\ sockData[d] = NoToken
      /\ ClaimIdentityResult(d, players[p].name, "9999", NoPlayer)
           = Reject(d, "Player not found or already claimed")

\* C35: a player V is eliminated only by its own confirmation: every resolve-kill
\* that eliminates V is sent by the connection to which V's session token was
\* issued by that connection's own claim or reclaim of V.
C35_OnlyOwnConfirmation ==
    \A c \in connected, tok \in TokenInputs, K \in PlayerIds, answer \in Answers,
       now \in CurrentTimestamps :
      LET V == PlayerBySession(players, tok)
          r == ResolveKillResult(c, tok, K, answer, now)
      IN  (V # NoPlayer /\ r.players[V].status = "eliminated"
             /\ players[V].status # "eliminated")
          => sessionToSocket[tok] = c

\* The session tokens an event carries in its payload
TokensIn(e) ==
    IF "players" \in DOMAIN e.data
    THEN { e.data.players[i].session_token : i \in DOMAIN e.data.players } \ {NoToken}
    ELSE IF "sessionToken" \in DOMAIN e.data THEN {e.data.sessionToken} ELSE {}

\* Every current session token in an event of outcome r goes to one connection,
\* the one that claimed or reclaimed the token's player
KeepsTokensPrivate(r) ==
    \A e \in Range(r.out) : \A t \in TokensIn(e) :
      PlayerBySession(r.players, t) # NoPlayer
        => e.to \in Sockets /\ r.sessionToSocket[t] = e.to

\* C36: no event sent to another connection or to the room of the game (the
\* roster snapshot of join-game and the roster updates of claim-identity and
\* resolve-kill included) contains the current session token of a player that
\* the receiver did not itself claim or reclaim.
C36_TokensStayPrivate ==
    /\ \A c \in connected : KeepsTokensPrivate(JoinGameResult(c))
    /\ \A c \in connected, name \in NameInputs, pin \in Pins :
         \A p \in Selected(ClaimCandidates(players, name)) :
         nextTok \in Tokens => KeepsTokensPrivate(ClaimIdentityResult(c, name, pin, p))
    /\ \A c \in connected, tok \in TokenInputs, killerId \in KillerInputs,
          answer \in Answers, now \in CurrentTimestamps :
         KeepsTokensPrivate(ResolveKillResult(c, tok, killerId, answer, now))

\* C37: the game summary reports a winner only for a finished game: while the
\* status is lobby or active the winner of the summary is none.
C37_WinnerOnlyWhenFinished ==
    gameStatus \in {"lobby", "active"} =>
      \A tok \in {NoToken} \cup TokenInputs, o \in HistoryOrders(kills) :
        GameSummary(players, kills, tok, o).winner_name = "null"

\* C38: a game started with n alive players finishes after exactly n - 1
\* confirmed eliminations and not earlier: in every step of an active game the
\* number of alive players falls by the number of kill records added (one per
\* confirmed elimination, nothing else changes it), and the game becomes
\* finished exactly in the step whose elimination leaves one alive player.
C38_FinishAfterEliminations ==
    [][ gameStatus = "active" =>
          /\ Cardinality(Alive') = Cardinality(Alive) - (Len(kills') - Len(kills))
          /\ (gameStatus' = "finished")
                <=> (Len(kills') = Len(kills) + 1 /\ Cardinality(Alive') = 1) ]_vars

\* The kill records added by a step
NewKills == { kills'[i] : i \in DOMAIN kills' \ DOMAIN kills }

\* C39: elimination is permanent: a player whose status is eliminated is
\* eliminated after every step (no claim, reclaim, cancel or start-game returns
\* it to alive or not-joined), and no kill record added later names it as the
\* killer or as the victim.
C39_EliminationPermanent ==
    [][ \A p \in EliminatedIn(players) :
          /\ p \in DOMAIN players' /\ players'[p].status = "eliminated"
          /\ \A k \in NewKills : k.killer # p /\ k.victim # p ]_vars

\* Two eliminations: the second kill was recorded while the first victim was
\* eliminated, and the first victim is still eliminated.
C39_Witness ==
    /\ Len(kills) = 2
    /\ players[kills[1].victim].status = "eliminated"
    /\ kills[2].killer # kills[1].victim /\ kills[2].victim # kills[1].victim

\* C40: the two lookups agree with each other and with the players table:
\* every channel stored in either lookup is connected, every key of
\* sessionToSocket is the current session token of some player, and the
\* channel stored under that token is the channel stored under that player's id.
C40_LookupsConsistent ==
    /\ \A t \in Tokens : sessionToSocket[t] # NoSock => sessionToSocket[t] \in connected
    /\ \A p \in PlayerSlots : playerToSocket[p] # NoSock => playerToSocket[p] \in connected
    /\ \A t \in Tokens :
         sessionToSocket[t] # NoSock
           => /\ PlayerBySession(players, t) # NoPlayer
              /\ sessionToSocket[t] = playerToSocket[PlayerBySession(players, t)]

====
